---- MODULE Spec2Model ----
(***************************************************************************)
(* Model of the document-to-answer pipeline of app_simple.py: the two      *)
(* request handlers process_document_url (POST /hackrx/run) and            *)
(* process_file_upload (POST /hackrx/upload), the helpers they call        *)
(* (verify_token, download_document, extract_text_from_pdf,                *)
(* extract_text_from_docx, process_with_gemini) and the temporary files    *)
(* they create and unlink.                                                 *)
(*                                                                         *)
(* A Python str is modelled as its run-length encoding: a sequence of runs *)
(* <<c, n>> (n >= 1 copies of the character c) in which adjacent runs have *)
(* different characters.  Every str has exactly one such encoding, so      *)
(* equality of encodings is equality of strings, and the operations below  *)
(* (len, +, [:k], strip) are computed on it exactly.  This keeps the       *)
(* 8000-character slice of the source at its real size.                    *)
(***************************************************************************)
EXTENDS Integers, Sequences, FiniteSets, TLC

\* ------------------------------------------------------------------ bounds
MaxQuestions == 3   \* longest question list a request carries
MaxPages     == 2   \* most pages (paragraphs) a document has
NumNames     == 2   \* distinct names tempfile can hand out

\* --------------------------------------------------------- program constants
TextBudget == 8000  \* text[:8000]

\* ------------------------------------------------------------------ strings
None == [none |-> TRUE]

Min(a, b) == IF a <= b THEN a ELSE b

Run(c, n) == <<c, n>>

\* the empty str ""
EmptyStr == << >>

\* the one-character str "\n"
NL == << Run("\n", 1) >>

RECURSIVE StrLen(_)
\* len(s)
StrLen(s) == IF s = << >> THEN 0 ELSE Head(s)[2] + StrLen(Tail(s))

\* s + t
Cat(s, t) ==
    IF s = << >> THEN t
    ELSE IF t = << >> THEN s
    ELSE IF s[Len(s)][1] = t[1][1]
         THEN SubSeq(s, 1, Len(s) - 1)
              \o << Run(t[1][1], s[Len(s)][2] + t[1][2]) >>
              \o Tail(t)
         ELSE s \o t

RECURSIVE Slice(_, _)
\* s[:k] for k >= 0
Slice(s, k) ==
    IF k <= 0 \/ s = << >> THEN << >>
    ELSE IF Head(s)[2] >= k THEN << Run(Head(s)[1], k) >>
    ELSE << Head(s) >> \o Slice(Tail(s), k - Head(s)[2])

\* str.strip() removes these from both ends
Whitespace == {" ", "\n"}

RECURSIVE LStrip(_)
LStrip(s) ==
    IF s = << >> THEN s
    ELSE IF Head(s)[1] \in Whitespace THEN LStrip(Tail(s)) ELSE s

RECURSIVE RStrip(_)
RStrip(s) ==
    IF s = << >> THEN s
    ELSE IF s[Len(s)][1] \in Whitespace
         THEN RStrip(SubSeq(s, 1, Len(s) - 1)) ELSE s

\* s.strip()
Strip(s) == RStrip(LStrip(s))

RECURSIVE JoinNL(_)
\* "\n".join(parts)
JoinNL(parts) ==
    IF parts = << >> THEN EmptyStr
    ELSE IF Len(parts) = 1 THEN parts[1]
    ELSE Cat(Cat(parts[1], NL), JoinNL(Tail(parts)))


\* ------------------------------------------------------------------- inputs
SeqsUpTo(S, n) == UNION { [1..k -> S] : k \in 0..n }

\* the requests in flight when they are served one at a time, and when two
\* are served concurrently
OneRequest == {1}

TwoRequests == {1, 2}

Endpoints == {"url", "upload"}

\* the question strings a client sends (opaque) and, for a JSON string, its
\* characters
QuestionTexts == {"q1", "q2"}

\* The questions a request carries, as the JSON value that was sent:
\* unparseable text, a number, a string (items: its characters) or a list
\* (items: its elements).
QuestionInputs ==
    { [kind |-> "invalid", items |-> << >>],
      [kind |-> "number", items |-> << >>],
      [kind |-> "str", items |-> << "c", "d" >>] }
    \cup { [kind |-> "list", items |-> q] : q \in SeqsUpTo(QuestionTexts, MaxQuestions) }

\* extension of the uploaded file's name / of the URL's path
Extensions == {".pdf", ".PDF", ".docx", ".doc", ".exe"}

\* text of one PDF page or DOCX paragraph
PageTexts ==
    { << Run("a", 1) >>,
      << Run("a", TextBudget - 1) >>,
      << Run("a", TextBudget), Run("b", 1) >> }

\* a page whose extract_text() raises
BadPage == << Run("!", 1) >>

\* The bytes of a document: what they really are (fmt) and their pages or
\* paragraphs.
Documents ==
    { [fmt |-> "pdf", parts |-> p] : p \in SeqsUpTo(PageTexts \cup {BadPage}, MaxPages) }
    \cup { [fmt |-> "docx", parts |-> p] : p \in SeqsUpTo(PageTexts, MaxPages) }
    \cup { [fmt |-> "other", parts |-> << >>] }

NoDocument == [fmt |-> "none", parts |-> << >>]

\* response.text of a model call that succeeds
Responses ==
    { << Run(" ", 1), Run("y", 1), Run("\n", 1) >>,
      << Run(" ", 1) >> }

\* names tempfile.NamedTemporaryFile can generate, with the suffix asked for
TempNames(suffix) == { [id |-> i, suffix |-> suffix] : i \in 1..NumNames }

\* What two concurrent requests carry: the tokens, question lists, extensions
\* and documents are a few of those above.
ConcQuestionInputs ==
    { [kind |-> "list", items |-> << "q1" >>],
      [kind |-> "list", items |-> << "q2", "q1" >>] }

ConcExtensions == {".pdf", ".docx"}

ConcDocuments ==
    { [fmt |-> "pdf", parts |-> << << Run("a", 1) >> >>],
      [fmt |-> "docx", parts |-> << << Run("a", TextBudget), Run("b", 1) >> >>] }

NoRequest == [endpoint |-> "none", token_ok |-> FALSE,
              questions |-> [kind |-> "invalid", items |-> << >>], ext |-> ""]

\* ------------------------------------------------------------ HTTP outcomes
NoResult == [status |-> 0, detail |-> "none", body |-> None]

\* raise HTTPException(status_code=s, detail=d)
HTTPException(s, d) == [status |-> s, detail |-> d, body |-> None]

\* QueryResponse / FileUploadResponse returned with status 200
Response200(answers, metadata) ==
    [status |-> 200, detail |-> "ok",
     body |-> [answers |-> answers, metadata |-> metadata]]

\* -------------------------------------------------------------------- state
VARIABLES
    pc,        \* pc[r]: where request r is in its handler
    req,       \* req[r]: the request as received
    files,     \* temporary files that exist: [name, by (creating request)]
    handle,    \* handle[r]: name of the NamedTemporaryFile r has open
    tmp,       \* tmp[r]: temp_file / temp_file_path
    content,   \* content[r]: response.content / content = await file.read()
    text,      \* text[r]: text being built / returned by the extractor
    pi,        \* pi[r]: pages extracted so far
    answers,   \* answers[r]: answers list of process_with_gemini
    calls,     \* calls[r]: model calls made: [prompt, outcome]
    pending,   \* pending[r]: return value or exception passing the finally
    result,    \* result[r]: what the caller received
    hist       \* hist[r]: pipeline steps r has run, in order

vars == << pc, req, files, handle, tmp, content, text, pi, answers, calls,
           pending, result, hist >>

\* the requests of the run
Requests == DOMAIN pc

\* more than one request is served
Concurrent == Requests # OneRequest

\* what a client can send and a document can be in this run
InputTokens == IF Concurrent THEN {TRUE} ELSE BOOLEAN

InputQuestions == IF Concurrent THEN ConcQuestionInputs ELSE QuestionInputs

InputExtensions == IF Concurrent THEN ConcExtensions ELSE Extensions

InputDocuments == IF Concurrent THEN ConcDocuments ELSE Documents

NoName == [id |-> 0, suffix |-> ""]

\* no request of R has arrived yet and no temporary file exists
InitFor(R) ==
    /\ pc = [r \in R |-> "idle"]
    /\ req = [r \in R |-> NoRequest]
    /\ files = {}
    /\ handle = [r \in R |-> NoName]
    /\ tmp = [r \in R |-> NoName]
    /\ content = [r \in R |-> NoDocument]
    /\ text = [r \in R |-> EmptyStr]
    /\ pi = [r \in R |-> 0]
    /\ answers = [r \in R |-> << >>]
    /\ calls = [r \in R |-> << >>]
    /\ pending = [r \in R |-> NoResult]
    /\ result = [r \in R |-> NoResult]
    /\ hist = [r \in R |-> << >>]

Init == InitFor(OneRequest)

InitConc == InitFor(TwoRequests)

\* --------------------------------------------------------------- filesystem
\* os.path.exists(name)
Exists(name) == \E f \in files : f.name = name

\* FreshNames that stores every document under one fixed path
FreshNames_fixed(suffix) == { [id |-> 1, suffix |-> suffix] }

\* tempfile.NamedTemporaryFile(delete=False, suffix=suffix) creates a file
\* under a name no existing file has
FreshNames(suffix) == { n \in TempNames(suffix) : ~Exists(n) }

\* os.unlink(name)
Unlink(name) == { f \in files : f.name # name }

\* the handler of r ends: the caller receives res
Finish(r, res) ==
    /\ pc' = [pc EXCEPT ![r] = "done"]
    /\ result' = [result EXCEPT ![r] = res]

Log(r, e) == [hist EXCEPT ![r] = Append(@, e)]


\* ------------------------------------------------------------------ arrival
\* A client sends a request to one of the two POST routes.
Receive(r) ==
    /\ pc[r] = "idle"
    /\ \E e \in Endpoints, t \in InputTokens, q \in InputQuestions,
          x \in InputExtensions :
          req' = [req EXCEPT ![r] =
                    [endpoint |-> e, token_ok |-> t, questions |-> q, ext |-> x]]
    /\ pc' = [pc EXCEPT ![r] = "auth"]
    /\ UNCHANGED << files, handle, tmp, content, text, pi, answers, calls,
                    pending, result, hist >>

\* verify_token that lets every token through
verify_token_open(r) ==
    /\ pc[r] = "auth"
    /\ pc' = [pc EXCEPT ![r] =
                IF req[r].endpoint = "url" THEN "validate" ELSE "up_parse"]
    /\ UNCHANGED << req, files, handle, tmp, content, text, pi, answers, calls,
                    pending, result, hist >>

\* Depends(verify_token): credentials.credentials != Config.BEARER_TOKEN
verify_token(r) ==
    /\ pc[r] = "auth"
    /\ IF ~req[r].token_ok
       THEN /\ Finish(r, HTTPException(401, "Invalid authentication credentials"))
       ELSE /\ pc' = [pc EXCEPT ![r] =
                        IF req[r].endpoint = "url" THEN "validate" ELSE "up_parse"]
            /\ UNCHANGED result
    /\ UNCHANGED << req, files, handle, tmp, content, text, pi, answers, calls,
                    pending, hist >>

\* questions: List[str] = Field(..., min_items=1)
ValidQueryRequest(q) == q.kind = "list" /\ Len(q.items) >= 1

\* The body of POST /hackrx/run is validated against QueryRequest before the
\* handler runs.
QueryRequest(r) ==
    /\ pc[r] = "validate"
    /\ IF ~ValidQueryRequest(req[r].questions)
       THEN /\ Finish(r, HTTPException(422, "validation error"))
       ELSE /\ pc' = [pc EXCEPT ![r] = "dl_get"]
            /\ UNCHANGED result
    /\ UNCHANGED << req, files, handle, tmp, content, text, pi, answers, calls,
                    pending, hist >>

\* ------------------------------------------------------- download_document
DownloadError == HTTPException(400, "Error downloading document")

\* download_get that fetches a second time when the first fetch fails
download_get_retry(r) ==
    /\ pc[r] = "dl_get"
    /\ \/ /\ hist' = Log(r, "download_failed")
          /\ IF \E i \in 1..Len(hist[r]) : hist[r][i] = "download_failed"
             THEN Finish(r, DownloadError)
             ELSE UNCHANGED << pc, result >>
          /\ UNCHANGED content
       \/ \E d \in InputDocuments :
             /\ content' = [content EXCEPT ![r] = d]
             /\ hist' = Log(r, "download")
             /\ pc' = [pc EXCEPT ![r] = "dl_mktemp"]
             /\ UNCHANGED result
    /\ UNCHANGED << req, files, handle, tmp, text, pi, answers, calls, pending >>

\* download_get that creates the temporary file before fetching, and lets
\* the fetch error escape as a 500
download_get_late(r) ==
    /\ pc[r] = "dl_get"
    /\ \/ /\ Finish(r, HTTPException(500, "Internal server error"))
          /\ hist' = Log(r, "download_failed")
          /\ \E n \in FreshNames(".pdf") : files' = files \cup { [name |-> n, by |-> r] }
          /\ UNCHANGED content
       \/ \E d \in InputDocuments :
             /\ content' = [content EXCEPT ![r] = d]
             /\ hist' = Log(r, "download")
             /\ pc' = [pc EXCEPT ![r] = "dl_mktemp"]
             /\ UNCHANGED << result, files >>
    /\ UNCHANGED << req, handle, tmp, text, pi, answers, calls, pending >>

\* requests.get(url, timeout=...) and response.raise_for_status()
download_get(r) ==
    /\ pc[r] = "dl_get"
    /\ \/ \* network failure or non-success status: except Exception -> 400,
          \* re-raised by process_document_url's except HTTPException
          /\ Finish(r, DownloadError)
          /\ hist' = Log(r, "download_failed")
          /\ UNCHANGED content
       \/ \E d \in InputDocuments :
             /\ content' = [content EXCEPT ![r] = d]
             /\ hist' = Log(r, "download")
             /\ pc' = [pc EXCEPT ![r] = "dl_mktemp"]
             /\ UNCHANGED result
    /\ UNCHANGED << req, files, handle, tmp, text, pi, answers, calls, pending >>

\* with tempfile.NamedTemporaryFile(delete=False, suffix='.pdf') as tmp_file
download_mktemp(r) ==
    /\ pc[r] = "dl_mktemp"
    /\ \E n \in FreshNames(".pdf") :
          /\ files' = files \cup { [name |-> n, by |-> r] }
          /\ handle' = [handle EXCEPT ![r] = n]
    /\ hist' = Log(r, "mktemp")
    /\ pc' = [pc EXCEPT ![r] = "dl_write"]
    /\ UNCHANGED << req, tmp, content, text, pi, answers, calls, pending, result >>

\* tmp_file.write(response.content); return tmp_file.name
download_write(r) ==
    /\ pc[r] = "dl_write"
    /\ \/ \* the write raises: the with block closes the file (delete=False
          \* keeps it), except Exception -> 400
          /\ Finish(r, DownloadError)
          /\ hist' = Log(r, "write_failed")
          /\ UNCHANGED tmp
       \/ /\ tmp' = [tmp EXCEPT ![r] = handle[r]]
          /\ hist' = Log(r, "write")
          /\ pc' = [pc EXCEPT ![r] = "url_extract"]
          /\ UNCHANGED result
    /\ handle' = [handle EXCEPT ![r] = NoName]
    /\ UNCHANGED << req, files, content, text, pi, answers, calls, pending >>

\* temp_file.lower().endswith('.pdf')
EndsWithPdf(name) == name.suffix = ".pdf"

\* process_document_url: both branches call extract_text_from_pdf
url_extract(r) ==
    /\ pc[r] = "url_extract"
    /\ pc' = [pc EXCEPT ![r] =
                IF EndsWithPdf(tmp[r]) THEN "pdf_open" ELSE "pdf_open"]
    /\ UNCHANGED << req, files, handle, tmp, content, text, pi, answers, calls,
                    pending, result, hist >>


\* ------------------------------------------------------ process_file_upload
\* questions_list = json.loads(questions)
json_loads_ok(q) == q.kind # "invalid"

\* upload_parse that stores the upload in a temporary file before the
\* questions field is parsed
upload_parse_saving(r) ==
    /\ pc[r] = "up_parse"
    /\ \E n \in FreshNames(".tmp") : files' = files \cup { [name |-> n, by |-> r] }
    /\ IF ~json_loads_ok(req[r].questions)
       THEN Finish(r, HTTPException(400, "Invalid JSON format for questions"))
       ELSE /\ pc' = [pc EXCEPT ![r] = "up_ext"]
            /\ UNCHANGED result
    /\ UNCHANGED << req, handle, tmp, content, text, pi, answers, calls,
                    pending, hist >>

\* try: questions_list = json.loads(questions) ... except json.JSONDecodeError
upload_parse(r) ==
    /\ pc[r] = "up_parse"
    /\ IF ~json_loads_ok(req[r].questions)
       THEN \* except json.JSONDecodeError
            Finish(r, HTTPException(400, "Invalid JSON format for questions"))
       ELSE /\ pc' = [pc EXCEPT ![r] = "up_ext"]
            /\ UNCHANGED result
    /\ UNCHANGED << req, files, handle, tmp, content, text, pi, answers, calls,
                    pending, hist >>

\* str.lower() on the extensions of the model
Lower(x) == IF x = ".PDF" THEN ".pdf" ELSE x

\* file_ext = os.path.splitext(file.filename)[1].lower()
file_ext(r) == Lower(req[r].ext)

\* allowed_extensions that lets executables through
allowed_extensions_exe == {".pdf", ".doc", ".docx", ".exe"}

allowed_extensions == {".pdf", ".doc", ".docx"}

\* if file_ext not in allowed_extensions: raise HTTPException(400, ...)
upload_check_ext(r) ==
    /\ pc[r] = "up_ext"
    /\ IF file_ext(r) \notin allowed_extensions
       THEN Finish(r, HTTPException(400, "Unsupported file type"))
       ELSE /\ pc' = [pc EXCEPT ![r] = "up_mktemp"]
            /\ UNCHANGED result
    /\ UNCHANGED << req, files, handle, tmp, content, text, pi, answers, calls,
                    pending, hist >>

\* with tempfile.NamedTemporaryFile(delete=False, suffix=file_ext) as tmp_file
upload_mktemp(r) ==
    /\ pc[r] = "up_mktemp"
    /\ \E n \in FreshNames(file_ext(r)) :
          /\ files' = files \cup { [name |-> n, by |-> r] }
          /\ handle' = [handle EXCEPT ![r] = n]
    /\ hist' = Log(r, "mktemp")
    /\ pc' = [pc EXCEPT ![r] = "up_read"]
    /\ UNCHANGED << req, tmp, content, text, pi, answers, calls, pending, result >>

InternalServerError == HTTPException(500, "Internal server error")

\* content = await file.read()
upload_read(r) ==
    /\ pc[r] = "up_read"
    /\ \/ \* the read raises inside the with block, before the try/finally:
          \* except Exception -> 500
          /\ Finish(r, InternalServerError)
          /\ hist' = Log(r, "read_failed")
          /\ handle' = [handle EXCEPT ![r] = NoName]
          /\ UNCHANGED content
       \/ \E d \in InputDocuments :
             /\ content' = [content EXCEPT ![r] = d]
             /\ pc' = [pc EXCEPT ![r] = "up_write"]
             /\ hist' = Log(r, "read")
             /\ UNCHANGED << result, handle >>
    /\ UNCHANGED << req, files, tmp, text, pi, answers, calls, pending >>

\* tmp_file.write(content); temp_file_path = tmp_file.name
upload_write(r) ==
    /\ pc[r] = "up_write"
    /\ \/ \* the write raises before the try/finally: except Exception -> 500
          /\ Finish(r, InternalServerError)
          /\ hist' = Log(r, "write_failed")
          /\ UNCHANGED tmp
       \/ /\ tmp' = [tmp EXCEPT ![r] = handle[r]]
          /\ hist' = Log(r, "write")
          /\ pc' = [pc EXCEPT ![r] = "up_extract"]
          /\ UNCHANGED result
    /\ handle' = [handle EXCEPT ![r] = NoName]
    /\ UNCHANGED << req, files, content, text, pi, answers, calls, pending >>

\* if file_ext == '.pdf' ... elif file_ext in ['.doc', '.docx'] ... else raise
upload_extract(r) ==
    /\ pc[r] = "up_extract"
    /\ IF file_ext(r) = ".pdf"
       THEN /\ pc' = [pc EXCEPT ![r] = "pdf_open"]
            /\ UNCHANGED pending
       ELSE IF file_ext(r) \in {".doc", ".docx"}
       THEN /\ pc' = [pc EXCEPT ![r] = "docx"]
            /\ UNCHANGED pending
       ELSE /\ pending' = [pending EXCEPT ![r] =
                             HTTPException(400, "Unsupported file format")]
            /\ pc' = [pc EXCEPT ![r] = "finally"]
    /\ UNCHANGED << req, files, handle, tmp, content, text, pi, answers, calls,
                    result, hist >>

\* ------------------------------------------------------------- extractors
\* an exception leaves the try block of the handler: the finally runs next
Raise(r, e) ==
    /\ pending' = [pending EXCEPT ![r] = e]
    /\ pc' = [pc EXCEPT ![r] = "finally"]

\* PdfError raised with status 400
PdfError400 == HTTPException(400, "Error processing PDF")

PdfError == HTTPException(500, "Error processing PDF")

DocxError == HTTPException(500, "Error processing DOCX")

\* extract_text_from_pdf: text = ""; open(file_path, 'rb'); PyPDF2.PdfReader
pdf_open(r) ==
    /\ pc[r] = "pdf_open"
    /\ text' = [text EXCEPT ![r] = EmptyStr]
    /\ pi' = [pi EXCEPT ![r] = 0]
    /\ IF content[r].fmt # "pdf"
       THEN /\ Raise(r, PdfError)
            /\ hist' = [hist EXCEPT ![r] = @ \o << "extract_pdf", "extract_failed" >>]
       ELSE /\ pc' = [pc EXCEPT ![r] = "pdf_page"]
            /\ hist' = Log(r, "extract_pdf")
            /\ UNCHANGED pending
    /\ UNCHANGED << req, files, handle, tmp, content, answers, calls, result >>

\* pdf_page with the try inside the loop: a page that raises is skipped
pdf_page_skip(r) ==
    /\ pc[r] = "pdf_page"
    /\ pi[r] < Len(content[r].parts)
    /\ LET page == content[r].parts[pi[r] + 1] IN
         IF page = BadPage
         THEN UNCHANGED text
         ELSE text' = [text EXCEPT ![r] = Cat(@, Cat(page, NL))]
    /\ pi' = [pi EXCEPT ![r] = @ + 1]
    /\ hist' = Log(r, "page")
    /\ UNCHANGED << req, files, handle, tmp, content, answers, calls, result,
                    pc, pending >>

\* for page in pdf_reader.pages: text += page.extract_text() + "\n"
pdf_page(r) ==
    /\ pc[r] = "pdf_page"
    /\ pi[r] < Len(content[r].parts)
    /\ LET page == content[r].parts[pi[r] + 1] IN
         IF page = BadPage
         THEN /\ Raise(r, PdfError)
              /\ hist' = [hist EXCEPT ![r] = @ \o << "page", "extract_failed" >>]
              /\ UNCHANGED << text, pi >>
         ELSE /\ text' = [text EXCEPT ![r] = Cat(@, Cat(page, NL))]
              /\ pi' = [pi EXCEPT ![r] = @ + 1]
              /\ hist' = Log(r, "page")
              /\ UNCHANGED << pc, pending >>
    /\ UNCHANGED << req, files, handle, tmp, content, answers, calls, result >>

\* the page loop is exhausted: return text
pdf_return(r) ==
    /\ pc[r] = "pdf_page"
    /\ pi[r] = Len(content[r].parts)
    /\ pc' = [pc EXCEPT ![r] = "gemini"]
    /\ UNCHANGED << req, files, handle, tmp, content, text, pi, answers, calls,
                    pending, result, hist >>

\* extract_text_from_docx: "\n".join(paragraph.text for paragraph in ...)
extract_text_from_docx(r) ==
    /\ pc[r] = "docx"
    /\ IF content[r].fmt # "docx"
       THEN /\ Raise(r, DocxError)
            /\ hist' = [hist EXCEPT ![r] = @ \o << "extract_docx", "extract_failed" >>]
            /\ UNCHANGED text
       ELSE /\ text' = [text EXCEPT ![r] = JoinNL(content[r].parts)]
            /\ hist' = Log(r, "extract_docx")
            /\ pc' = [pc EXCEPT ![r] = "gemini"]
            /\ UNCHANGED pending
    /\ UNCHANGED << req, files, handle, tmp, content, pi, answers, calls, result >>


\* ------------------------------------------------------ process_with_gemini
\* BudgetedText that slices from the end, text[:-1]
BudgetedText_neg(t) == Slice(t, StrLen(t) - 1)

\* BudgetedText with an off-by-one slice, text[:8001]
BudgetedText_off(t) == Slice(t, TextBudget + 1)

\* {text[:8000]} inside the prompt
BudgetedText(t) == Slice(t, TextBudget)

\* The f-string prompt: fixed wording around the two interpolated values.
Prompt(t, question) == [doc |-> BudgetedText(t), question |-> question]

ModelError == HTTPException(500, "Error processing with AI")

\* for question in questions: lists and strings iterate, numbers do not
Iterable(q) == q.kind \in {"list", "str"}

\* model = genai.GenerativeModel('gemini-pro'); answers = []; the for
\* statement takes iter(questions)
gemini_begin(r) ==
    /\ pc[r] = "gemini"
    /\ answers' = [answers EXCEPT ![r] = << >>]
    /\ IF ~Iterable(req[r].questions)
       THEN \* TypeError, except Exception -> 500
            /\ Raise(r, ModelError)
            /\ hist' = Log(r, "iter_failed")
       ELSE /\ pc' = [pc EXCEPT ![r] = "gem_loop"]
            /\ UNCHANGED << pending, hist >>
    /\ UNCHANGED << req, files, handle, tmp, content, text, pi, calls, result >>

\* gemini_call that fans the calls out: the next call starts while the
\* previous one is still in flight
gemini_call_fanout(r) ==
    /\ pc[r] \in {"gem_loop", "gem_wait"}
    /\ Len(calls[r]) < Len(req[r].questions.items)
    /\ LET question == req[r].questions.items[Len(calls[r]) + 1] IN
         calls' = [calls EXCEPT ![r] =
                     Append(@, [prompt |-> Prompt(text[r], question),
                                outcome |-> "pending", text |-> EmptyStr])]
    /\ hist' = Log(r, "model")
    /\ pc' = [pc EXCEPT ![r] = "gem_wait"]
    /\ UNCHANGED << req, files, handle, tmp, content, text, pi, answers,
                    pending, result >>

\* gemini_call with a loop that keeps prompting with the first question
gemini_call_first(r) ==
    /\ pc[r] = "gem_loop"
    /\ Len(answers[r]) < Len(req[r].questions.items)
    /\ LET question == req[r].questions.items[1] IN
         calls' = [calls EXCEPT ![r] =
                     Append(@, [prompt |-> Prompt(text[r], question),
                                outcome |-> "pending", text |-> EmptyStr])]
    /\ hist' = Log(r, "model")
    /\ pc' = [pc EXCEPT ![r] = "gem_wait"]
    /\ UNCHANGED << req, files, handle, tmp, content, text, pi, answers,
                    pending, result >>

\* next iteration: build the prompt and call model.generate_content(prompt)
gemini_call(r) ==
    /\ pc[r] = "gem_loop"
    /\ Len(answers[r]) < Len(req[r].questions.items)
    /\ LET question == req[r].questions.items[Len(answers[r]) + 1] IN
         calls' = [calls EXCEPT ![r] =
                     Append(@, [prompt |-> Prompt(text[r], question),
                                outcome |-> "pending", text |-> EmptyStr])]
    /\ hist' = Log(r, "model")
    /\ pc' = [pc EXCEPT ![r] = "gem_wait"]
    /\ UNCHANGED << req, files, handle, tmp, content, text, pi, answers,
                    pending, result >>

\* the call in flight (the last of cs) ends with outcome o and response.text t
Returned(cs, o, t) ==
    [cs EXCEPT ![Len(cs)] = [prompt |-> cs[Len(cs)].prompt, outcome |-> o, text |-> t]]

\* gemini_return that asks again, once, when a call raises
gemini_return_retry(r) ==
    /\ pc[r] = "gem_wait"
    /\ \/ \E resp \in Responses :
             /\ calls' = [calls EXCEPT ![r] = Returned(@, "ok", resp)]
             /\ answers' = [answers EXCEPT ![r] = Append(@, Strip(resp))]
             /\ pc' = [pc EXCEPT ![r] = "gem_loop"]
             /\ UNCHANGED << pending, hist >>
       \/ /\ calls' = [calls EXCEPT ![r] = Returned(@, "raised", EmptyStr)]
          /\ hist' = Log(r, "model_failed")
          /\ IF \E i \in 1..Len(hist[r]) : hist[r][i] = "model_failed"
             THEN Raise(r, ModelError)
             ELSE /\ pc' = [pc EXCEPT ![r] = "gem_loop"]
                  /\ UNCHANGED pending
          /\ UNCHANGED answers
    /\ UNCHANGED << req, files, handle, tmp, content, text, pi, result >>

\* gemini_return with the try inside the loop: a call that raises yields an
\* empty answer and the loop goes on
gemini_return_isolated(r) ==
    /\ pc[r] = "gem_wait"
    /\ \/ \E resp \in Responses :
             /\ calls' = [calls EXCEPT ![r] = Returned(@, "ok", resp)]
             /\ answers' = [answers EXCEPT ![r] = Append(@, Strip(resp))]
       \/ /\ calls' = [calls EXCEPT ![r] = Returned(@, "raised", EmptyStr)]
          /\ answers' = [answers EXCEPT ![r] = Append(@, EmptyStr)]
    /\ pc' = [pc EXCEPT ![r] = "gem_loop"]
    /\ UNCHANGED << req, files, handle, tmp, content, text, pi, pending, result, hist >>

\* the call returns: answers.append(response.text.strip()), or it raises
gemini_return(r) ==
    /\ pc[r] = "gem_wait"
    /\ \/ \E resp \in Responses :
             /\ calls' = [calls EXCEPT ![r] = Returned(@, "ok", resp)]
             /\ answers' = [answers EXCEPT ![r] = Append(@, Strip(resp))]
             /\ pc' = [pc EXCEPT ![r] = "gem_loop"]
             /\ UNCHANGED << pending, hist >>
       \/ /\ calls' = [calls EXCEPT ![r] = Returned(@, "raised", EmptyStr)]
          /\ Raise(r, ModelError)
          /\ hist' = Log(r, "model_failed")
          /\ UNCHANGED answers
    /\ UNCHANGED << req, files, handle, tmp, content, text, pi, result >>

\* the loop is exhausted: return answers
gemini_done(r) ==
    /\ pc[r] = "gem_loop"
    /\ Len(answers[r]) = Len(req[r].questions.items)
    /\ pc' = [pc EXCEPT ![r] = "assemble"]
    /\ UNCHANGED << req, files, handle, tmp, content, text, pi, answers, calls,
                    pending, result, hist >>

\* ------------------------------------------------------- result and cleanup
\* url_metadata that reports the length of the text sent to the model
url_metadata_sent(r) ==
    [source |-> "document_url",
     total_questions |-> Len(req[r].questions.items),
     llm |-> "gemini-pro",
     text_length |-> StrLen(BudgetedText(text[r]))]

\* metadata of process_document_url
url_metadata(r) ==
    [source |-> "document_url",
     total_questions |-> Len(req[r].questions.items),
     llm |-> "gemini-pro",
     text_length |-> StrLen(text[r])]

\* metadata of process_file_upload
upload_metadata(r) ==
    [source |-> "filename",
     total_questions |-> Len(req[r].questions.items),
     llm |-> "gemini-pro",
     text_length |-> StrLen(text[r])]

\* return QueryResponse(answers=answers, metadata=metadata)
url_respond(r) ==
    /\ pc[r] = "assemble"
    /\ req[r].endpoint = "url"
    /\ pending' = [pending EXCEPT ![r] = Response200(answers[r], url_metadata(r))]
    /\ pc' = [pc EXCEPT ![r] = "finally"]
    /\ UNCHANGED << req, files, handle, tmp, content, text, pi, answers, calls,
                    result, hist >>

\* return FileUploadResponse(answers=answers, metadata=metadata, filename=...)
upload_respond(r) ==
    /\ pc[r] = "assemble"
    /\ req[r].endpoint = "upload"
    /\ pending' = [pending EXCEPT ![r] = Response200(answers[r], upload_metadata(r))]
    /\ pc' = [pc EXCEPT ![r] = "finally"]
    /\ UNCHANGED << req, files, handle, tmp, content, text, pi, answers, calls,
                    result, hist >>

\* finally: if os.path.exists(temp_file): os.unlink(temp_file)
\* then the return value or the HTTPException leaves the handler
url_finally(r) ==
    /\ pc[r] = "finally"
    /\ req[r].endpoint = "url"
    /\ IF Exists(tmp[r])
       THEN /\ files' = Unlink(tmp[r])
            /\ hist' = Log(r, "unlink")
       ELSE UNCHANGED << files, hist >>
    /\ Finish(r, pending[r])
    /\ UNCHANGED << req, handle, tmp, content, text, pi, answers, calls, pending >>

\* finally: if os.path.exists(temp_file_path): os.unlink(temp_file_path)
upload_finally(r) ==
    /\ pc[r] = "finally"
    /\ req[r].endpoint = "upload"
    /\ IF Exists(tmp[r])
       THEN /\ files' = Unlink(tmp[r])
            /\ hist' = Log(r, "unlink")
       ELSE UNCHANGED << files, hist >>
    /\ Finish(r, pending[r])
    /\ UNCHANGED << req, handle, tmp, content, text, pi, answers, calls, pending >>

\* ------------------------------------------------------------ specification
Next ==
    \E r \in Requests :
       \/ Receive(r)
       \/ verify_token(r)
       \/ QueryRequest(r)
       \/ download_get(r)
       \/ download_mktemp(r)
       \/ download_write(r)
       \/ url_extract(r)
       \/ upload_parse(r)
       \/ upload_check_ext(r)
       \/ upload_mktemp(r)
       \/ upload_read(r)
       \/ upload_write(r)
       \/ upload_extract(r)
       \/ pdf_open(r)
       \/ pdf_page(r)
       \/ pdf_return(r)
       \/ extract_text_from_docx(r)
       \/ gemini_begin(r)
       \/ gemini_call(r)
       \/ gemini_return(r)
       \/ gemini_done(r)
       \/ url_respond(r)
       \/ upload_respond(r)
       \/ url_finally(r)
       \/ upload_finally(r)

Spec == Init /\ [][Next]_vars

\* the steps of the handler of request r, once the request has arrived
Handle(r) ==
    \/ verify_token(r)
    \/ QueryRequest(r)
    \/ download_get(r)
    \/ download_mktemp(r)
    \/ download_write(r)
    \/ url_extract(r)
    \/ upload_parse(r)
    \/ upload_check_ext(r)
    \/ upload_mktemp(r)
    \/ upload_read(r)
    \/ upload_write(r)
    \/ upload_extract(r)
    \/ pdf_open(r)
    \/ pdf_page(r)
    \/ pdf_return(r)
    \/ extract_text_from_docx(r)
    \/ gemini_begin(r)
    \/ gemini_call(r)
    \/ gemini_return(r)
    \/ gemini_done(r)
    \/ url_respond(r)
    \/ upload_respond(r)
    \/ url_finally(r)
    \/ upload_finally(r)

\* Two concurrent requests; the server keeps running the handler of each
\* request it has received, and every fetch, read, write, extraction and
\* model call a handler waits for ends.
SpecLive == InitConc /\ [][Next]_vars /\ \A r \in TwoRequests : WF_vars(Handle(r))

\* two requests served concurrently, their steps interleaved in any order
SpecConc == InitConc /\ [][Next]_vars


\* ------------------------------------------------------------------ helpers
\* request r has run step e
Has(r, e) == \E i \in 1..Len(hist[r]) : hist[r][i] = e

\* a temporary file created by request r exists
OwnsFile(r) == \E f \in files : f.by = r

\* an extractor has been started for request r
ExtractorRan(r) == Has(r, "extract_pdf") \/ Has(r, "extract_docx")

Finished(r) == pc[r] = "done"

Succeeded(r) == Finished(r) /\ result[r].status = 200

\* 4xx statuses
ClientError(st) == st \in 400..499

\* 5xx statuses
ServerError(st) == st \in 500..599

RECURSIVE IsPrefix(_, _)
\* p is a prefix of s, on the run-length encodings
IsPrefix(p, s) ==
    IF p = << >> THEN TRUE
    ELSE IF s = << >> THEN FALSE
    ELSE /\ Head(p)[1] = Head(s)[1]
         /\ \/ Head(p)[2] = Head(s)[2] /\ IsPrefix(Tail(p), Tail(s))
            \/ Head(p)[2] < Head(s)[2] /\ Tail(p) = << >>

\* ------------------------------------------------------------------- claims

\* C1: once a request has finished, with a result or with an error at any
\* step, no temporary file created for it exists.
C1_NoTempFileAfterRequest ==
    \A r \in Requests : Finished(r) => ~OwnsFile(r)

\* C2: a request that succeeds returns one answer per question, and answer i
\* is the (stripped) text of the model call whose prompt carries question i.
C2_AnswersMatchQuestions ==
    \A r \in Requests :
       Succeeded(r) =>
          LET qs  == req[r].questions.items
              ans == result[r].body.answers
          IN /\ Len(ans) = Len(qs)
             /\ Len(calls[r]) = Len(qs)
             /\ \A i \in 1..Len(qs) :
                   /\ calls[r][i].prompt.question = qs[i]
                   /\ calls[r][i].outcome = "ok"
                   /\ ans[i] = Strip(calls[r][i].text)

\* C2 witness: a successful request with two different questions whose
\* answers differ
C2_Witness ==
    \E r \in Requests :
       /\ Succeeded(r)
       /\ Len(req[r].questions.items) >= 2
       /\ req[r].questions.items[1] # req[r].questions.items[2]
       /\ result[r].body.answers[1] # result[r].body.answers[2]

\* C3: when the model call for question k raises, the request fails with a
\* 500, returns none of the answers already computed, and k is the last
\* model call of the request.
C3_ModelFailureAbortsRequest ==
    \A r \in Requests :
       \A k \in 1..Len(calls[r]) :
          calls[r][k].outcome = "raised" =>
             /\ k = Len(calls[r])
             /\ pc[r] \in {"finally", "done"}
             /\ Finished(r) => /\ ServerError(result[r].status)
                               /\ result[r].body = None

\* C3 witness: the call for the second of three questions raised after the
\* first was answered, and the request has finished
C3_Witness ==
    \E r \in Requests :
       /\ Finished(r)
       /\ Len(req[r].questions.items) = 3
       /\ Len(calls[r]) = 2
       /\ calls[r][1].outcome = "ok"
       /\ calls[r][2].outcome = "raised"
       /\ Len(answers[r]) = 1

\* C4: an authenticated request with an empty question list is rejected with
\* a validation-class error, and neither an extractor nor the model is run
\* for it.
C4_EmptyQuestionsRejected ==
    \A r \in Requests :
       (req[r].token_ok /\ req[r].questions = [kind |-> "list", items |-> << >>]) =>
          /\ ~ExtractorRan(r)
          /\ ~Has(r, "model")
          /\ (Finished(r) /\ ~Has(r, "read_failed") /\ ~Has(r, "write_failed")) =>
                result[r].status \in {400, 422}

\* C5: an authenticated upload whose questions field is not a serialized list
\* (and in which no file I/O, extraction or model call failed) is rejected
\* with a 400 and leaves no temporary file.
C5_MalformedQuestionsRejected ==
    \A r \in Requests :
       (/\ Finished(r)
        /\ req[r].endpoint = "upload"
        /\ req[r].token_ok
        /\ req[r].questions.kind # "list"
        /\ ~Has(r, "read_failed")
        /\ ~Has(r, "write_failed")
        /\ ~Has(r, "extract_failed")
        /\ \A k \in 1..Len(calls[r]) : calls[r][k].outcome # "raised") =>
          /\ result[r].status = 400
          /\ ~OwnsFile(r)


\* C6: an upload whose extension is none of .pdf, .doc, .docx (in any case)
\* runs no pipeline step at all (no temporary file, no read, no extraction,
\* no model call) and ends with a 4xx status.
C6_BadExtensionRejectedEarly ==
    \A r \in Requests :
       (/\ req[r].endpoint = "upload"
        /\ req[r].ext \notin {".pdf", ".PDF", ".doc", ".docx"}) =>
          /\ hist[r] = << >>
          /\ ~OwnsFile(r)
          /\ calls[r] = << >>
          /\ Finished(r) => ClientError(result[r].status)

\* C6 witness: an authenticated .exe upload with a valid question list was
\* rejected by the extension check
C6_Witness ==
    \E r \in Requests :
       /\ Finished(r)
       /\ req[r].endpoint = "upload"
       /\ req[r].token_ok
       /\ req[r].questions.kind = "list"
       /\ req[r].ext = ".exe"
       /\ result[r] = HTTPException(400, "Unsupported file type")

\* C7: on the URL endpoint a failed fetch ends the request with the 400
\* download error; no temporary file exists and nothing else has run.
C7_DownloadFailureIs400 ==
    \A r \in Requests :
       (req[r].endpoint = "url" /\ Has(r, "download_failed")) =>
          /\ Finished(r)
          /\ result[r].status = 400
          /\ result[r].detail = "Error downloading document"
          /\ ~OwnsFile(r)
          /\ ~ExtractorRan(r)
          /\ ~Has(r, "mktemp")
          /\ calls[r] = << >>

\* C7 witness: a URL request whose fetch failed
C7_Witness ==
    \E r \in Requests :
       /\ req[r].endpoint = "url"
       /\ Has(r, "download_failed")
       /\ Finished(r)

\* C8 (as stated): an extraction failure ends the request with a 4xx status,
\* and a request that reached extraction gets a 5xx status only after a model
\* call raised.
C8_ExtractionFailureIs400 ==
    \A r \in Requests :
       Finished(r) =>
          /\ Has(r, "extract_failed") => ClientError(result[r].status)
          /\ (ServerError(result[r].status) /\ ExtractorRan(r)) =>
                \E k \in 1..Len(calls[r]) : calls[r][k].outcome = "raised"

\* C8 (amended): an extraction failure ends the request, on both endpoints,
\* with status 500, the status a raising model call gives too.
C8_ExtractionFailureIs500 ==
    \A r \in Requests :
       Finished(r) =>
          /\ Has(r, "extract_failed") =>
                /\ result[r].status = 500
                /\ result[r].body = None
                /\ calls[r] = << >>
          /\ (\E k \in 1..Len(calls[r]) : calls[r][k].outcome = "raised") =>
                result[r].status = 500

\* C8 witness: a request whose PDF extraction failed on a page has finished
C8_Witness ==
    \E r \in Requests :
       /\ Finished(r)
       /\ Has(r, "extract_failed")
       /\ Has(r, "page")

\* C9: no extractor is run on a document whose extension is not a recognized
\* format, on either endpoint.
C9_ExtractionFormatGated ==
    \A r \in Requests :
       req[r].ext \notin {".pdf", ".PDF", ".doc", ".docx"} => ~ExtractorRan(r)

\* C10: the document text of every prompt is the first min(len(text), 8000)
\* characters of the extracted text.
C10_PromptTextIsBudgetedPrefix ==
    \A r \in Requests :
       \A i \in 1..Len(calls[r]) :
          LET d == calls[r][i].prompt.doc IN
             /\ StrLen(d) <= 8000
             /\ StrLen(d) = Min(StrLen(text[r]), 8000)
             /\ IsPrefix(d, text[r])
             /\ StrLen(text[r]) <= 8000 => d = text[r]

\* C10 witness: a prompt was built from a text longer than 8000 characters,
\* cut inside its last run
C10_Witness ==
    \E r \in Requests :
       /\ Len(calls[r]) >= 1
       /\ StrLen(text[r]) > 8000
       /\ calls[r][1].prompt.doc # text[r]
       /\ StrLen(calls[r][1].prompt.doc) = 8000


\* --------------------------------------------------------- further helpers
RECURSIVE SumLen(_)
\* total number of characters of the parts
SumLen(parts) == IF parts = << >> THEN 0 ELSE StrLen(Head(parts)) + SumLen(Tail(parts))

\* number of times step e occurs in the history of r
Count(r, e) == Cardinality({ i \in 1..Len(hist[r]) : hist[r][i] = e })

\* length of the full text of r's document as its extractor builds it: every
\* page followed by a newline (PDF), paragraphs separated by newlines (DOCX)
ExtractedLength(r) ==
    LET parts == content[r].parts IN
       IF Has(r, "extract_pdf")
       THEN SumLen(parts) + Len(parts)
       ELSE SumLen(parts) + (IF Len(parts) = 0 THEN 0 ELSE Len(parts) - 1)

\* C11: truncating the text of a prompt again changes nothing, and all the
\* prompts of one request carry the same truncated text.
C11_BudgetIdempotent ==
    \A r \in Requests :
       \A i \in 1..Len(calls[r]) :
          /\ BudgetedText(calls[r][i].prompt.doc) = calls[r][i].prompt.doc
          /\ BudgetedText(BudgetedText(text[r])) = BudgetedText(text[r])
          /\ \A j \in 1..Len(calls[r]) :
                calls[r][j].prompt.doc = calls[r][i].prompt.doc

\* C11 witness: two prompts of one request were built from a text longer
\* than the budget
C11_Witness ==
    \E r \in Requests :
       /\ Len(calls[r]) >= 2
       /\ StrLen(text[r]) > TextBudget
       /\ calls[r][2].prompt.doc # text[r]

\* C12: in a successful result the metadata carries the number of questions
\* submitted and the length of the full extracted text, not of the text sent
\* to the model.
C12_MetadataCounts ==
    \A r \in Requests :
       Succeeded(r) =>
          LET meta == result[r].body.metadata IN
             /\ meta.total_questions = Len(req[r].questions.items)
             /\ meta.text_length = ExtractedLength(r)

\* C12 witness: a successful request on a text longer than the budget, whose
\* metadata length exceeds the length of the text in its prompts
C12_Witness ==
    \E r \in Requests :
       /\ Succeeded(r)
       /\ Len(calls[r]) >= 1
       /\ result[r].body.metadata.text_length > StrLen(calls[r][1].prompt.doc)
       /\ result[r].body.metadata.total_questions = Len(calls[r])

\* C13: the model is called once per question, in question order, each call
\* starting only after the previous one returned; a successful request with
\* n questions has made exactly n calls.
C13_SequentialCalls ==
    \A r \in Requests :
       /\ Len(calls[r]) <= Len(req[r].questions.items)
       /\ Count(r, "model") = Len(calls[r])
       /\ \A i \in 1..Len(calls[r]) :
             /\ calls[r][i].prompt.question = req[r].questions.items[i]
             /\ i < Len(calls[r]) => calls[r][i].outcome = "ok"
             /\ calls[r][i].outcome = "pending" => pc[r] = "gem_wait"
       /\ Succeeded(r) => Len(calls[r]) = Len(req[r].questions.items)

\* C13 witness: the second call of a request is in flight after the first
\* returned
C13_Witness ==
    \E r \in Requests :
       /\ Len(calls[r]) = 2
       /\ calls[r][1].outcome = "ok"
       /\ calls[r][2].outcome = "pending"
       /\ Len(req[r].questions.items) = 3


\* steps that raise
ErrorEvents ==
    {"download_failed", "read_failed", "write_failed", "extract_failed",
     "iter_failed", "model_failed"}

\* C14: nothing is retried: one request fetches at most once, extracts at
\* most once and calls the model at most once per question, and after the
\* first step that raises only the unlink of the temporary file runs; a
\* request rejected by a check runs no step at all.
C14_NoRetry ==
    \A r \in Requests :
       /\ Count(r, "download") + Count(r, "download_failed") <= 1
       /\ Count(r, "extract_pdf") + Count(r, "extract_docx") <= 1
       /\ Count(r, "model") <= Len(req[r].questions.items)
       /\ \A i \in 1..Len(calls[r]) :
             calls[r][i].prompt.question = req[r].questions.items[i]
       /\ \A i \in 1..Len(hist[r]) :
             hist[r][i] \in ErrorEvents =>
                /\ SubSeq(hist[r], i + 1, Len(hist[r])) \in { << >>, << "unlink" >> }
                /\ pc[r] \in {"finally", "done"}
                /\ Finished(r) => result[r].status # 200
       /\ (/\ Finished(r)
           /\ result[r].status # 200
           /\ \A i \in 1..Len(hist[r]) : hist[r][i] \notin ErrorEvents) =>
             hist[r] = << >>

\* C14 witness: a request whose second model call raised has finished, with
\* two calls made and the unlink as its last step
C14_Witness ==
    \E r \in Requests :
       /\ Finished(r)
       /\ Len(calls[r]) = 2
       /\ Count(r, "model_failed") = 1
       /\ hist[r][Len(hist[r])] = "unlink"

\* C15: a request owns at most one temporary file at any time, and none
\* before its question parsing and extension check (upload) or its fetch
\* (URL) have passed.
C15_AtMostOneTempFile ==
    \A r \in Requests :
       /\ Cardinality({ f \in files : f.by = r }) <= 1
       /\ pc[r] \in {"idle", "auth", "validate", "dl_get", "dl_mktemp",
                     "up_parse", "up_ext", "up_mktemp"} => ~OwnsFile(r)
       /\ (Finished(r) /\ ~Has(r, "mktemp")) => ~OwnsFile(r)

\* C15 witness: a request in flight owns its one temporary file while the
\* model is being called
C15_Witness ==
    \E r \in Requests :
       /\ pc[r] = "gem_wait"
       /\ Cardinality({ f \in files : f.by = r }) = 1
       /\ Exists(tmp[r])

RECURSIVE PdfText(_)
\* the text of a PDF: every page followed by a newline, in page order
PdfText(parts) ==
    IF parts = << >> THEN EmptyStr
    ELSE Cat(Cat(Head(parts), NL), PdfText(Tail(parts)))

\* the full text of r's document, by the extractor that was run on it
DocText(r) ==
    IF Has(r, "extract_pdf") THEN PdfText(content[r].parts)
    ELSE JoinNL(content[r].parts)

\* Every temporary file has its own name, two requests in flight never hold
\* the same temporary file, and what a request asks the model and returns
\* comes from its own document and its own questions.
RequestsIsolated ==
    /\ \A f, g \in files : f.name = g.name => f = g
    /\ \A r, q \in Requests :
          (r # q /\ ~Finished(r) /\ ~Finished(q) /\ tmp[r] # NoName) =>
             tmp[r] # tmp[q]
    /\ \A r \in Requests :
          /\ Len(answers[r]) <= Len(calls[r])
          /\ \A i \in 1..Len(calls[r]) :
                /\ calls[r][i].prompt.question = req[r].questions.items[i]
                /\ IsPrefix(calls[r][i].prompt.doc, DocText(r))
                /\ StrLen(calls[r][i].prompt.doc) = Min(StrLen(DocText(r)), TextBudget)
          /\ \A i \in 1..Len(answers[r]) :
                answers[r][i] = Strip(calls[r][i].text)
          /\ Succeeded(r) => result[r].body.answers = answers[r]

\* A temporary file disappears only in the finally step of the request that
\* created it, and a step of one request leaves the other requests' text,
\* answers, model calls and results alone.
StepsIsolated ==
    /\ \A f \in files :
          f \notin files' => (pc[f.by] = "finally" /\ pc'[f.by] = "done")
    /\ \E r \in Requests :
          \A q \in Requests \ {r} :
             /\ pc'[q] = pc[q]
             /\ tmp'[q] = tmp[q]
             /\ text'[q] = text[q]
             /\ answers'[q] = answers[q]
             /\ calls'[q] = calls[q]
             /\ result'[q] = result[q]

\* C17: concurrent requests share no mutable state: their temporary files are
\* distinct, the cleanup of one never removes the file of another, and the
\* prompts and answers of a request come from its own document and questions
\* under every interleaving.
C17_RequestsIndependent == [](RequestsIsolated) /\ [][StepsIsolated]_vars

\* C17 witness: one request has finished and unlinked its file while the
\* other, received before that, still holds its own file during a model call
C17_Witness ==
    \E r, q \in Requests :
       /\ r # q
       /\ Finished(r)
       /\ Has(r, "unlink")
       /\ pc[q] = "gem_wait"
       /\ Exists(tmp[q])
       /\ content[r] # content[q]

\* C18: the PDF extractor takes the pages in order; when it returns, the text
\* is every page followed by a newline; when a page (or the file) cannot be
\* read the call raises and the text of the pages read so far goes nowhere.
C18_PdfAllOrNothing ==
    \A r \in Requests :
       Has(r, "extract_pdf") =>
          LET parts == content[r].parts IN
             /\ Count(r, "page") <= Len(parts)
             /\ pc[r] = "pdf_page" =>
                   /\ Count(r, "page") = pi[r]
                   /\ text[r] = PdfText(SubSeq(parts, 1, pi[r]))
             /\ (pc[r] \in {"gemini", "gem_loop", "gem_wait", "assemble"}
                 \/ Len(calls[r]) > 0 \/ Succeeded(r)) =>
                   /\ content[r].fmt = "pdf"
                   /\ \A i \in 1..Len(parts) : parts[i] # BadPage
                   /\ Count(r, "page") = Len(parts)
                   /\ text[r] = PdfText(parts)
                   /\ ~Has(r, "extract_failed")
             /\ Has(r, "extract_failed") =>
                   /\ pc[r] \in {"finally", "done"}
                   /\ calls[r] = << >>
                   /\ Finished(r) => (result[r].status = 500 /\ result[r].body = None)

\* C18 witness: the second page of a PDF raised after the first was
\* extracted, and the request has finished
C18_Witness ==
    \E r \in Requests :
       /\ Finished(r)
       /\ Has(r, "extract_failed")
       /\ Count(r, "page") = 2
       /\ text[r] # EmptyStr


\* C19: a request whose bearer token is not the configured one runs no
\* pipeline step (no fetch, no temporary file, no extraction, no model call)
\* and ends with 401.
C19_BadTokenRejected ==
    \A r \in Requests :
       (pc[r] # "idle" /\ ~req[r].token_ok) =>
          /\ pc[r] \in {"auth", "done"}
          /\ hist[r] = << >>
          /\ ~OwnsFile(r)
          /\ calls[r] = << >>
          /\ content[r] = NoDocument
          /\ Finished(r) => result[r].status = 401

\* C19 witness: an upload of a PDF with a valid question list and a wrong
\* token has been rejected
C19_Witness ==
    \E r \in Requests :
       /\ Finished(r)
       /\ ~req[r].token_ok
       /\ req[r].endpoint = "upload"
       /\ req[r].ext = ".pdf"
       /\ req[r].questions.kind = "list"
       /\ Len(req[r].questions.items) >= 1
       /\ result[r].status = 401

\* a finished request has one outcome, a 200 with a body or an error
\* without one
OneOutcome(r) ==
    Finished(r) =>
       /\ result[r] # NoResult
       /\ result[r].status = 200 <=> result[r].body # None

\* C20: every request received eventually finishes, with exactly one outcome
\* that never changes afterwards, having made at most len(questions) model
\* calls.
C20_EveryRequestCompletes ==
    /\ \A r \in TwoRequests : (pc[r] # "idle") ~> Finished(r)
    /\ [](\A r \in Requests :
             /\ Len(calls[r]) <= Len(req[r].questions.items)
             /\ ~Finished(r) => result[r] = NoResult
             /\ OneOutcome(r))
    /\ [][\A r \in Requests :
             Finished(r) => (pc'[r] = "done" /\ result'[r] = result[r])]_vars

\* C20 witness: both requests have finished, one with a result after one
\* model call per question, the other with an error after its second call
C20_Witness ==
    \E r, q \in Requests :
       /\ Succeeded(r)
       /\ Len(req[r].questions.items) = 2
       /\ Len(calls[r]) = 2
       /\ Finished(q)
       /\ result[q].status = 500
       /\ Len(calls[q]) = 2

====
